---- MODULE Spec2Model ----
(***************************************************************************)
(* Model of app.py, the retail-sales dashboard script: the loader that     *)
(* merges the yearly CSV files of a folder into one long-format dataset,   *)
(* and the script's top-to-bottom run over it (dataset check, sidebar      *)
(* controls, filter, derived metrics, KPI and treemap share).              *)
(*                                                                         *)
(* Text (file names, column names, cells) is a sequence of one-character   *)
(* strings, so that the regular expressions, substring tests, strip() and  *)
(* numeric coercion of the code are computed rather than assumed.          *)
(* A float is a record [k, num, den]: k = "num" is the rational num/den in *)
(* lowest terms, and "nan", "inf", "ninf" are the IEEE values that pandas  *)
(* produces silently (rounding is not modelled).                           *)
(***************************************************************************)
EXTENDS Integers, Sequences, FiniteSets, TLC

\* ------------------------------------------------------------- bounds
\* Rows in all the files of the data folder together, and the largest value
\* of the top-N slider.
MaxRecords == 3
MaxTopN == 2

\* ------------------------------------------------------------- text
\* None of Python: a missing year, a column that was not found.
None == 0

\* An empty CSV field, which read_csv loads as NaN.
NA == <<"<NA>">>

Digits == <<"0", "1", "2", "3", "4", "5", "6", "7", "8", "9">>

UpperCase == <<"A", "B", "C", "D", "E", "F", "G", "H", "I", "J", "K", "L", "M",
               "N", "O", "P", "Q", "R", "S", "T", "U", "V", "W", "X", "Y", "Z">>

LowerCase == <<"a", "b", "c", "d", "e", "f", "g", "h", "i", "j", "k", "l", "m",
               "n", "o", "p", "q", "r", "s", "t", "u", "v", "w", "x", "y", "z">>

IsDigit(c) == \E i \in 1..10 : Digits[i] = c

DigitVal(c) == (CHOOSE i \in 1..10 : Digits[i] = c) - 1

IsSpace(c) == c \in {" ", "\t"}

\* str.lower() on one character.
LowerChar(c) ==
    IF \E i \in 1..26 : UpperCase[i] = c
    THEN LowerCase[CHOOSE i \in 1..26 : UpperCase[i] = c]
    ELSE c

Lower(s) == [i \in 1..Len(s) |-> LowerChar(s[i])]

\* pat in s
Contains(s, pat) ==
    \E i \in 1..(Len(s) - Len(pat) + 1) : SubSeq(s, i, i + Len(pat) - 1) = pat

\* str.strip(): leading and trailing whitespace removed.
Strip(s) ==
    LET keep == {i \in 1..Len(s) : ~IsSpace(s[i])}
    IN  IF keep = {} THEN <<>>
        ELSE SubSeq(s, CHOOSE i \in keep : \A j \in keep : i <= j,
                       CHOOSE i \in keep : \A j \in keep : j <= i)

\* re.sub(r"\s+", " ", s): every run of whitespace becomes one space.
RECURSIVE CollapseSpaces(_)
CollapseSpaces(s) ==
    IF s = <<>> THEN <<>>
    ELSE IF IsSpace(Head(s))
         THEN IF Len(s) > 1 /\ IsSpace(s[2])
              THEN CollapseSpaces(Tail(s))
              ELSE <<" ">> \o CollapseSpaces(Tail(s))
         ELSE <<Head(s)>> \o CollapseSpaces(Tail(s))

_clean_colname(c) == Strip(CollapseSpaces(c))

\* re.search(r"(20\d{2})", s): the first match as an int, or None.
YearSearch(s) ==
    LET hits == {i \in 1..(Len(s) - 3) :
                    /\ s[i] = "2" /\ s[i + 1] = "0"
                    /\ IsDigit(s[i + 2]) /\ IsDigit(s[i + 3])}
    IN  IF hits = {} THEN None
        ELSE LET i == CHOOSE h \in hits : \A g \in hits : h <= g
             IN  2000 + 10 * DigitVal(s[i + 2]) + DigitVal(s[i + 3])

detect_year_from_filename(name) == YearSearch(name)

RECURSIVE detect_year_from_columns(_)
detect_year_from_columns(cols) ==
    IF cols = <<>> THEN None
    ELSE IF YearSearch(Head(cols)) # None THEN YearSearch(Head(cols))
         ELSE detect_year_from_columns(Tail(cols))

\* The position of the first column whose lower-cased name contains pat, or None.
FirstWith(cols, pat) ==
    LET hits == {i \in 1..Len(cols) : Contains(Lower(cols[i]), pat)}
    IN  IF hits = {} THEN None ELSE CHOOSE h \in hits : \A g \in hits : h <= g

\* Columns are named by position (read_csv keeps header names distinct).
pick_brand_col(cols) ==
    IF FirstWith(cols, <<"b", "r", "a", "n", "d">>) # None
    THEN FirstWith(cols, <<"b", "r", "a", "n", "d">>)
    ELSE IF Len(cols) > 0 THEN 1 ELSE None

pick_retail_col(cols) ==
    IF FirstWith(cols, <<"r", "e", "t", "a", "i", "l">>) # None
    THEN FirstWith(cols, <<"r", "e", "t", "a", "i", "l">>)
    ELSE IF Len(cols) > 1 THEN 2 ELSE None

\* ------------------------------------------------------------- numbers
Abs(n) == IF n < 0 THEN -n ELSE n

RECURSIVE Gcd(_, _)
Gcd(a, b) == IF b = 0 THEN a ELSE Gcd(b, a % b)

NaN == [k |-> "nan", num |-> 0, den |-> 1]
PosInf == [k |-> "inf", num |-> 0, den |-> 1]
NegInf == [k |-> "ninf", num |-> 0, den |-> 1]

\* The float n/d, d # 0, in lowest terms with a positive denominator.
Rat(n, d) ==
    LET g == Gcd(Abs(n), Abs(d))
        s == IF d < 0 THEN -1 ELSE 1
    IN  [k |-> "num", num |-> (s * n) \div g, den |-> Abs(d) \div g]

Num(n) == [k |-> "num", num |-> n, den |-> 1]

IsNum(x) == x.k = "num"

\* pd.isna / pd.notna
IsNaN(x) == x.k = "nan"

\* x - y of two finite-or-NaN floats (pivot cells).
FSub(x, y) ==
    IF IsNum(x) /\ IsNum(y)
    THEN Rat(x.num * y.den - y.num * x.den, x.den * y.den)
    ELSE NaN

\* (x / y) * 100 in float arithmetic: a zero divisor gives an infinity or
\* NaN, never an exception.
FDivPct(x, y) ==
    IF ~(IsNum(x) /\ IsNum(y)) THEN NaN
    ELSE IF y.num # 0 THEN Rat(100 * x.num * y.den, x.den * y.num)
    ELSE IF x.num > 0 THEN PosInf
    ELSE IF x.num < 0 THEN NegInf
    ELSE NaN

\* Decimal digits to a natural number.
RECURSIVE DigitsVal(_)
DigitsVal(s) ==
    IF s = <<>> THEN 0
    ELSE 10 * DigitsVal(SubSeq(s, 1, Len(s) - 1)) + DigitVal(s[Len(s)])

AllDigits(s) == s # <<>> /\ \A i \in 1..Len(s) : IsDigit(s[i])

\* pd.to_numeric(cell, errors="coerce") on an integer column: the number, or
\* NaN for an empty field and for a token that is no number.
ToNumeric(cell) ==
    IF cell = NA THEN NaN
    ELSE IF AllDigits(cell) THEN Num(DigitsVal(cell))
    ELSE IF Len(cell) > 1 /\ cell[1] = "-" /\ AllDigits(Tail(cell))
         THEN Num(-DigitsVal(Tail(cell)))
    ELSE NaN

\* Series.astype(str): a present cell is its text, NaN becomes the text "nan".
AsStr(cell) == IF cell = NA THEN <<"n", "a", "n">> ELSE cell

\* ------------------------------------------------------------- loading
\* A CSV file of the data folder: its file name, its header line and its rows
\* (one cell per column; a cell is its text, or NA for an empty field).
CsvFile(name, cols, rows) == [name |-> name, cols |-> cols, rows |-> rows]

\* load_one_csv: the table as read, with its column names cleaned.
load_one_csv(f) ==
    [cols |-> [i \in 1..Len(f.cols) |-> _clean_colname(f.cols[i])],
     rows |-> f.rows]

\* A record of the long format.
Rec(year, brand, retail) == [Year |-> year, Brand |-> brand, Retail |-> retail]

RECURSIVE SelectSeq2(_, _)
\* The elements of s at the positions in keep, in order.
SelectSeq2(s, keep) ==
    IF s = <<>> THEN <<>>
    ELSE LET rest == SelectSeq2(SubSeq(s, 1, Len(s) - 1), keep)
         IN  IF Len(s) \in keep THEN Append(rest, s[Len(s)]) ELSE rest

\* to_long(df, year).  df[[brand_col, retail_col]] raises KeyError when a
\* column was not found (None), and out["Brand"] raises KeyError when both
\* picks are the same column (the rename leaves two columns named "Retail").
\* Otherwise: Brand is the cell as text, stripped; Retail is the cell coerced to
\* a number; rows whose Brand or Retail is missing are dropped.
to_long(df, year) ==
    LET brand_col == pick_brand_col(df.cols)
        retail_col == pick_retail_col(df.cols)
    IN  IF brand_col = None \/ retail_col = None \/ brand_col = retail_col
        THEN [ok |-> FALSE, rows |-> <<>>]
        ELSE LET brand(i) == Strip(AsStr(df.rows[i][brand_col]))
                 retail(i) == ToNumeric(df.rows[i][retail_col])
                 kept == {i \in 1..Len(df.rows) :
                             brand(i) # NA /\ ~IsNaN(retail(i))}
                 out == [i \in 1..Len(df.rows) |->
                             Rec(year, brand(i), retail(i).num)]
             IN  [ok |-> TRUE, rows |-> SelectSeq2(out, kept)]

\* Python's `a or b` on the two year detections.
ResolveYear(f) ==
    IF detect_year_from_filename(f.name) # None
    THEN detect_year_from_filename(f.name)
    ELSE detect_year_from_columns(load_one_csv(f).cols)

\* r comes before s in sort_values(["Year", "Retail"], ascending=[True, False]).
SortsBefore(r, s) ==
    r.Year < s.Year \/ (r.Year = s.Year /\ r.Retail > s.Retail)

\* The stable sort of the concatenated parts: insertion of the last element
\* after every element that does not sort after it.
RECURSIVE SortValues(_)
SortValues(s) ==
    IF Len(s) <= 1 THEN s
    ELSE LET init == SortValues(SubSeq(s, 1, Len(s) - 1))
             x == s[Len(s)]
             n == Cardinality({i \in 1..Len(init) : ~SortsBefore(x, init[i])})
         IN  SubSeq(init, 1, n) \o <<x>> \o SubSeq(init, n + 1, Len(init))

\* LoadLoop recording a file as used only when it yields a record.
RECURSIVE LoadLoop_UsedIfRows(_)
LoadLoop_UsedIfRows(files) ==
    IF files = <<>> THEN [ok |-> TRUE, parts |-> <<>>, used |-> <<>>]
    ELSE LET acc == LoadLoop_UsedIfRows(SubSeq(files, 1, Len(files) - 1))
             f == files[Len(files)]
             year == ResolveYear(f)
             long == to_long(load_one_csv(f), year)
         IN  IF ~acc.ok THEN acc
             ELSE IF year = None THEN acc
             ELSE IF ~long.ok THEN [ok |-> FALSE, parts |-> <<>>, used |-> <<>>]
             ELSE [ok |-> TRUE,
                   parts |-> acc.parts \o long.rows,
                   used |-> IF long.rows = <<>> THEN acc.used
                            ELSE Append(acc.used, f.name)]

\* The loop of load_dataset_from_folder over the sorted files: a file with no
\* year is skipped, any other file is normalised and recorded as used.
RECURSIVE LoadLoop(_)
LoadLoop(files) ==
    IF files = <<>> THEN [ok |-> TRUE, parts |-> <<>>, used |-> <<>>]
    ELSE LET acc == LoadLoop(SubSeq(files, 1, Len(files) - 1))
             f == files[Len(files)]
             year == ResolveYear(f)
             long == to_long(load_one_csv(f), year)
         IN  IF ~acc.ok THEN acc
             ELSE IF year = None THEN acc
             ELSE IF ~long.ok THEN [ok |-> FALSE, parts |-> <<>>, used |-> <<>>]
             ELSE [ok |-> TRUE,
                   parts |-> acc.parts \o long.rows,
                   used |-> Append(acc.used, f.name)]

\* load_dataset_from_folder: (data, used), or ok = FALSE when to_long raised.
load_dataset_from_folder(files) ==
    LET r == LoadLoop(files)
    IN  [ok |-> r.ok, data |-> SortValues(r.parts), used |-> r.used]

\* ------------------------------------------------------------- inputs
\* File names, in sorted order: three that carry a year and one that does not.
f2020 == <<"2", "0", "2", "0", "_", "d", "a", "t", "a", ".", "c", "s", "v">>
f2021 == <<"2", "0", "2", "1", "_", "d", "a", "t", "a", ".", "c", "s", "v">>
f2022 == <<"2", "0", "2", "2", "_", "d", "a", "t", "a", ".", "c", "s", "v">>
fSales == <<"s", "a", "l", "e", "s", "_", "d", "a", "t", "a", ".", "c", "s", "v">>

\* Header lines.  hStd is the expected one; hSwapped is found by substring in
\* any order and case, and carries a year; hPositional matches neither
\* substring; hOneColumn has a single column; hNameBrand has "brand" in its
\* second column only.
hStd == << <<"B", "r", "a", "n", "d">>, <<"R", "e", "t", "a", "i", "l">> >>
hSwapped == << <<"R", "e", "t", "a", "i", "l", " ", " ", "2", "0", "2", "1">>,
               <<" ", "B", "R", "A", "N", "D">> >>
hPositional == << <<"M", "e", "r", "e", "k">>, <<"U", "n", "i", "t">> >>
hOneColumn == << <<"B", "r", "a", "n", "d">> >>
hNameBrand == << <<"N", "a", "m", "e">>, <<"B", "r", "a", "n", "d">> >>

\* What each column of a header line holds: a brand ("b") or a quantity ("q").
ColumnKinds(h) ==
    IF h = hSwapped THEN <<"q", "b">>
    ELSE IF h = hOneColumn THEN <<"b">>
    ELSE IF h = hNameBrand THEN <<"b", "b">>
    ELSE <<"b", "q">>

\* One line of a file with header h, holding brand cell b and quantity cell q.
Line(h, b, q) ==
    [j \in 1..Len(h) |-> IF ColumnKinds(h)[j] = "b" THEN b ELSE q]

BrandA == <<"A">>
BrandB == <<"B">>

\* Well-formed (brand, quantity) lines: two brands; a zero, a positive and a
\* negative quantity.
CleanLines ==
    {<<BrandA, <<"1">> >>, <<BrandA, <<"0">> >>,
     <<BrandB, <<"1">> >>, <<BrandB, <<"-", "1">> >>}

\* Lines with a missing, blank or padded brand, or a missing or non-numeric
\* quantity.
DirtyLines ==
    {<<NA, <<"1">> >>, << <<" ">>, <<"1">> >>, << <<" ", "B", " ">>, <<"1">> >>,
     <<BrandA, NA>>, <<BrandA, <<"x">> >>, <<NA, NA>>}

\* The sequences over S of length at most n.
RECURSIVE SeqsUpTo(_, _)
SeqsUpTo(S, n) ==
    IF n = 0 THEN {<<>>}
    ELSE LET shorter == SeqsUpTo(S, n - 1)
         IN  shorter \cup {Append(s, x) : s \in {t \in shorter : Len(t) = n - 1}, x \in S}

\* The well-formed files named name with at most n lines under the expected
\* header.
CleanTables == [n \in 0..MaxRecords |-> SeqsUpTo(CleanLines, n)]

RegularFiles(name, n) ==
    {CsvFile(name, hStd, [i \in 1..Len(ls) |-> Line(hStd, ls[i][1], ls[i][2])]) :
        ls \in CleanTables[n]}

\* A one-line file that is not regular: a dirty line under the expected
\* header, or a well-formed line under another header; named with or without
\* a year.
IrregularFiles ==
    {CsvFile(f2021, hStd, <<Line(hStd, l[1], l[2])>>) : l \in DirtyLines}
    \cup {CsvFile(name, h, <<Line(h, BrandA, <<"1">>)>>) :
            name \in {f2021, fSales},
            h \in {hSwapped, hPositional, hOneColumn, hNameBrand}}
    \cup {CsvFile(fSales, hStd, <<Line(hStd, BrandA, <<"1">>)>>)}

\* fs followed by each regular file named name that keeps the folder within
\* MaxRecords lines.
RECURSIVE Lines(_)
Lines(fs) == IF fs = <<>> THEN 0 ELSE Len(fs[1].rows) + Lines(Tail(fs))

Extend(F, name) ==
    UNION {{Append(fs, g) : g \in RegularFiles(name, MaxRecords - Lines(fs))} : fs \in F}

\* The folders: the matching files in sorted order.  Regular files of one,
\* two or three years, or one irregular file alone or after a regular file;
\* at most MaxRecords lines in all.
Folders ==
    LET one(name) == Extend({<<>>}, name)
        regular ==
            one(f2020) \cup one(f2021) \cup one(f2022)
            \cup Extend(one(f2020), f2021) \cup Extend(one(f2020), f2022)
            \cup Extend(one(f2021), f2022)
            \cup Extend(Extend(one(f2020), f2021), f2022)
        irregular ==
            {<<g>> : g \in IrregularFiles}
            \cup {<<f, g>> : f \in RegularFiles(f2020, MaxRecords - 1),
                            g \in IrregularFiles}
    IN  regular \cup irregular

\* ------------------------------------------------------------- the run
VARIABLES
    folder,          \* the files load_dataset_from_folder finds, sorted
    pc,              \* where the script is
    halt,            \* why the run ended early, or ""
    df,              \* the unified dataset
    used_files,
    years,           \* sorted list of the years of df
    brands_all,      \* the brands of df
    selected_years, topn, brand_mode, manual_brands, kpi_year,
    df_f,            \* the filtered view, annotated by the derived metrics
    kpi,             \* the KPI row's numbers
    tre              \* the treemap's slice of the KPI year, with Share

vars == <<folder, pc, halt, df, used_files, years, brands_all, selected_years,
          topn, brand_mode, manual_brands, kpi_year, df_f, kpi, tre>>

Min(a, b) == IF a < b THEN a ELSE b
Max(a, b) == IF a > b THEN a ELSE b

\* sorted(set) of integers.
RECURSIVE Sorted(_)
Sorted(S) ==
    IF S = {} THEN <<>>
    ELSE LET m == CHOOSE x \in S : \A y \in S : x <= y
         IN  <<m>> \o Sorted(S \ {m})

Range(s) == {s[i] : i \in 1..Len(s)}

\* s[s["Year"].isin(Y)] and s[s["Brand"].isin(B)]: the rows kept, in order.
OfYears(s, Y) == SelectSeq2(s, {i \in 1..Len(s) : s[i].Year \in Y})

OfBrands(s, B) == SelectSeq2(s, {i \in 1..Len(s) : s[i].Brand \in B})

RECURSIVE SumRetail(_)
SumRetail(s) == IF s = <<>> THEN 0 ELSE s[1].Retail + SumRetail(Tail(s))

Init ==
    /\ folder \in Folders
    /\ pc = "load"
    /\ halt = ""
    /\ df = <<>>
    /\ used_files = <<>>
    /\ years = <<>>
    /\ brands_all = {}
    /\ selected_years = {}
    /\ topn = 0
    /\ brand_mode = ""
    /\ manual_brands = {}
    /\ kpi_year = None
    /\ df_f = <<>>
    /\ kpi = <<>>
    /\ tre = <<>>

\* Lines 110-120: load the folder; a KeyError of to_long ends the script; with
\* no used file the sidebar shows the error and st.stop() ends the run;
\* otherwise the year and brand lists are taken from the dataset.
Load ==
    /\ pc = "load"
    /\ LET r == load_dataset_from_folder(folder)
       IN  IF ~r.ok
           THEN /\ pc' = "stopped"
                /\ halt' = "KeyError"
                /\ UNCHANGED <<df, used_files, years, brands_all>>
           ELSE /\ df' = r.data
                /\ used_files' = r.used
                /\ IF r.used = <<>>
                   THEN /\ pc' = "stopped"
                        /\ halt' = "no_files"
                        /\ UNCHANGED <<years, brands_all>>
                   ELSE /\ pc' = "controls"
                        /\ halt' = ""
                        /\ years' = Sorted({r.data[i].Year : i \in 1..Len(r.data)})
                        /\ brands_all' = {r.data[i].Brand : i \in 1..Len(r.data)}
    /\ UNCHANGED <<folder, selected_years, topn, brand_mode, manual_brands,
                   kpi_year, df_f, kpi, tre>>

ModeTop == "Top (per tahun)"
ModeManual == "Manual pilih brand"

\* Controls without the stop on an empty year selection: the widgets below it
\* are read, the KPI select box of no option giving None.
Controls_NoStop ==
    /\ pc = "controls"
    /\ \E sel \in SUBSET Range(years) :
         \E mode \in {ModeTop, ModeManual},
            n \in 1..Max(1, Min(MaxTopN, Cardinality(brands_all))),
            manual \in SUBSET brands_all,
            k \in sel \cup {None} :
                /\ mode = ModeTop => manual = {}
                /\ mode = ModeManual => n = Max(1, Min(MaxTopN, Cardinality(brands_all)))
                /\ k = None <=> sel = {}
                /\ selected_years' = sel
                /\ topn' = n
                /\ brand_mode' = mode
                /\ manual_brands' = manual
                /\ kpi_year' = k
                /\ pc' = "filter"
                /\ halt' = ""
    /\ UNCHANGED <<folder, df, used_files, years, brands_all, df_f, kpi, tre>>

\* Lines 124-159: the sidebar.  An empty year selection warns and stops.  The
\* top-N slider runs from its lower limit (5 in the code, 1 here) to the
\* number of brands, capped (30 in the code, MaxTopN here); the manual brand
\* list is asked for in manual mode only (the slider then stays at its default,
\* the cap); the KPI year is one of the selected years.
Controls ==
    /\ pc = "controls"
    /\ \E sel \in SUBSET Range(years) :
         IF sel = {}
         THEN /\ selected_years' = sel
              /\ pc' = "stopped"
              /\ halt' = "no_years"
              /\ UNCHANGED <<topn, brand_mode, manual_brands, kpi_year>>
         ELSE \E mode \in {ModeTop, ModeManual},
                 n \in 1..Min(MaxTopN, Cardinality(brands_all)),
                 manual \in SUBSET brands_all,
                 k \in sel :
                /\ mode = ModeTop => manual = {}
                /\ mode = ModeManual => n = Min(MaxTopN, Cardinality(brands_all))
                /\ selected_years' = sel
                /\ topn' = n
                /\ brand_mode' = mode
                /\ manual_brands' = manual
                /\ kpi_year' = k
                /\ pc' = "filter"
                /\ halt' = ""
    /\ UNCHANGED <<folder, df, used_files, years, brands_all, df_f, kpi, tre>>

\* DataFrame.nlargest(n, "Retail") (keep="first"): the positions of the n
\* rows of s with the largest Retail, the earlier row first among equals.
NLargest(s, n) ==
    {i \in 1..Len(s) :
        Cardinality({j \in 1..Len(s) :
            \/ s[j].Retail > s[i].Retail
            \/ (s[j].Retail = s[i].Retail /\ j < i)}) < n}

\* groupby("Year").apply(nlargest(topn))["Brand"].unique(): the brands of the
\* topn largest rows of each year of d.
TopBrands(d, n) ==
    UNION {LET g == OfYears(d, {y})
           IN  {g[i].Brand : i \in NLargest(g, n)} :
              y \in {d[i].Year : i \in 1..Len(d)}}

\* ApplyFilters without the guard on an empty manual list.
ApplyFilters_NoGuard(d, sel, mode, n, manual) ==
    LET by_year == OfYears(d, sel)
    IN  IF mode = ModeTop
        THEN OfBrands(by_year, TopBrands(by_year, n))
        ELSE OfBrands(by_year, manual)

\* Lines 164-176: the year filter, then the brand filter of the mode; in
\* manual mode an empty list applies no brand filter.
ApplyFilters(d, sel, mode, n, manual) ==
    LET by_year == OfYears(d, sel)
    IN  IF mode = ModeTop
        THEN OfBrands(by_year, TopBrands(by_year, n))
        ELSE IF manual # {}
             THEN OfBrands(by_year, manual)
             ELSE by_year

FilterData ==
    /\ pc = "filter"
    /\ df_f' = ApplyFilters(df, selected_years, brand_mode, topn, manual_brands)
    /\ pc' = "derive"
    /\ UNCHANGED <<folder, halt, df, used_files, years, brands_all, selected_years,
                   topn, brand_mode, manual_brands, kpi_year, kpi, tre>>

\* np.where(total > 0, retail / total * 100, nan)
ShareOf(retail, total) ==
    IF total > 0 THEN FDivPct(Num(retail), Num(total)) ELSE NaN

\* The pivot with absent cells filled with 0 (fill_value=0).
Pivot_FillZero(d, b, y) ==
    Num(SumRetail(OfBrands(OfYears(d, {y}), {b})))

\* pivot_table(index="Brand", columns="Year", values="Retail", aggfunc="sum"):
\* the cell of brand b and year y, NaN when b has no row in y.
Pivot(d, b, y) ==
    LET cell == OfBrands(OfYears(d, {y}), {b})
    IN  IF cell = <<>> THEN NaN ELSE Num(SumRetail(cell))

PivotColumns(d) == {d[i].Year : i \in 1..Len(d)}

\* Whether the loop of lines 188-197 assigns the rows of year y.
YoYAssigned(d, ys, y) ==
    /\ Len(ys) >= 2
    /\ y \in Range(Tail(ys))
    /\ (y - 1) \in PivotColumns(d) /\ y \in PivotColumns(d)

\* change = pivot_all[y] - pivot_all[prev], mapped by brand
YoYChange(d, ys, b, y) ==
    IF YoYAssigned(d, ys, y) THEN FSub(Pivot(d, b, y), Pivot(d, b, y - 1)) ELSE NaN

\* growth = (change / pivot_all[prev]) * 100, mapped by brand
YoYGrowth(d, ys, b, y) ==
    IF YoYAssigned(d, ys, y)
    THEN FDivPct(FSub(Pivot(d, b, y), Pivot(d, b, y - 1)), Pivot(d, b, y - 1))
    ELSE NaN

\* Annotate with the YoY pivot taken over the filtered view.
Annotate_PivotOfView(d, ys, view) ==
    [i \in 1..Len(view) |->
        LET r == view[i]
            total == SumRetail(OfYears(view, {r.Year}))
        IN  [Year |-> r.Year, Brand |-> r.Brand, Retail |-> r.Retail,
             TotalYear |-> total,
             Share |-> ShareOf(r.Retail, total),
             YoY_Change |-> YoYChange(view, ys, r.Brand, r.Year),
             YoY_Growth |-> YoYGrowth(view, ys, r.Brand, r.Year)]]

\* Annotate with the share taken of the year's total in the whole dataset.
Annotate_GlobalTotal(d, ys, view) ==
    [i \in 1..Len(view) |->
        LET r == view[i]
            total == SumRetail(OfYears(d, {r.Year}))
        IN  [Year |-> r.Year, Brand |-> r.Brand, Retail |-> r.Retail,
             TotalYear |-> total,
             Share |-> ShareOf(r.Retail, total),
             YoY_Change |-> YoYChange(d, ys, r.Brand, r.Year),
             YoY_Growth |-> YoYGrowth(d, ys, r.Brand, r.Year)]]

\* Lines 181-197: each row of the view gets the total of its year within the
\* view, its share of it, and the YoY change and growth of its brand and year
\* from the pivot of the whole dataset d.
Annotate(d, ys, view) ==
    [i \in 1..Len(view) |->
        LET r == view[i]
            total == SumRetail(OfYears(view, {r.Year}))
        IN  [Year |-> r.Year, Brand |-> r.Brand, Retail |-> r.Retail,
             TotalYear |-> total,
             Share |-> ShareOf(r.Retail, total),
             YoY_Change |-> YoYChange(d, ys, r.Brand, r.Year),
             YoY_Growth |-> YoYGrowth(d, ys, r.Brand, r.Year)]]

DeriveMetrics ==
    /\ pc = "derive"
    /\ df_f' = Annotate(df, years, df_f)
    /\ pc' = "overview"
    /\ UNCHANGED <<folder, halt, df, used_files, years, brands_all, selected_years,
                   topn, brand_mode, manual_brands, kpi_year, kpi, tre>>

\* The fewest rows the treemap keeps: head(max(12, topn)).
TreemapRows == 12

\* Lines 405-407: the rows of the KPI year in the whole dataset, each with its
\* share of the year's total, largest first.
Treemap(d, y, n) ==
    LET rows == OfYears(d, {y})
        total == SumRetail(rows)
        shared == [i \in 1..Len(rows) |->
                    [Year |-> rows[i].Year, Brand |-> rows[i].Brand,
                     Retail |-> rows[i].Retail,
                     Share |-> FDivPct(Num(rows[i].Retail), Num(total))]]
        sorted == SortValues(shared)
    IN  SubSeq(sorted, 1, Min(Len(sorted), Max(TreemapRows, n)))

\* market_by_year.get(y, nan)
MarketTotal(d, y) ==
    IF y \in PivotColumns(d)
    THEN Num(SumRetail(OfYears(d, {y})))
    ELSE NaN

\* Lines 220-238: the market total of the KPI year, its change and guarded
\* growth against the year before, and the top row of the view in the KPI year.
KpiRow(d, view, y) ==
    LET total_kpi == MarketTotal(d, y)
        total_prev == MarketTotal(d, y - 1)
        market_change == FSub(total_kpi, total_prev)
        tmp_year == SortValues(OfYears(view, {y}))
    IN  [total_kpi |-> total_kpi,
         market_change |-> market_change,
         market_growth |->
            IF ~IsNaN(market_change) /\ ~IsNaN(total_prev) /\ total_prev.num # 0
            THEN FDivPct(market_change, total_prev) ELSE NaN,
         top_brand |-> IF Len(tmp_year) > 0 THEN tmp_year[1].Brand ELSE <<"-">>,
         top_share |-> IF Len(tmp_year) > 0 THEN tmp_year[1].Share ELSE NaN]

\* Lines 216-416: the KPI row and the treemap.
Overview ==
    /\ pc = "overview"
    /\ kpi' = KpiRow(df, df_f, kpi_year)
    /\ tre' = Treemap(df, kpi_year, topn)
    /\ pc' = "done"
    /\ UNCHANGED <<folder, halt, df, used_files, years, brands_all, selected_years,
                   topn, brand_mode, manual_brands, kpi_year, df_f>>

Next == Load \/ Controls \/ FilterData \/ DeriveMetrics \/ Overview

Spec == Init /\ [][Next]_vars

\* ------------------------------------------------------------- properties
\* A view row without its derived columns.
Plain(r) == Rec(r.Year, r.Brand, r.Retail)

PlainView == [i \in 1..Len(df_f) |-> Plain(df_f[i])]

Filtered == pc \in {"derive", "overview", "done"}
Derived == pc \in {"overview", "done"}

InSelectedYears(r) == r.Year \in selected_years

C2_ZeroBaseGrowthUndefined ==
    Derived =>
        \A i \in 1..Len(df_f) :
            Pivot(df, df_f[i].Brand, df_f[i].Year - 1) = Num(0) =>
                /\ df_f[i].YoY_Change = Pivot(df, df_f[i].Brand, df_f[i].Year)
                /\ IsNaN(df_f[i].YoY_Growth)

\* The lines of file f that hold a brand (a non-blank cell) and a number.
ValidLines(f) ==
    LET t == load_one_csv(f)
    IN  {i \in 1..Len(t.rows) :
            /\ t.rows[i][pick_brand_col(t.cols)] # NA
            /\ Strip(t.rows[i][pick_brand_col(t.cols)]) # <<>>
            /\ ~IsNaN(ToNumeric(t.rows[i][pick_retail_col(t.cols)]))}

RECURSIVE CountValid(_)
CountValid(files) ==
    IF files = <<>> THEN 0
    ELSE (IF ResolveYear(files[1]) = None THEN 0
          ELSE Cardinality(ValidLines(files[1])))
         + CountValid(Tail(files))

Loaded == pc # "load" /\ halt # "KeyError"

\* C3: every record of the loaded dataset has a trimmed, non-empty brand, and
\* only the lines with a brand and a numeric quantity produce a record.
C3_RecordsHaveBrandAndQuantity ==
    Loaded =>
        /\ \A i \in 1..Len(df) : df[i].Brand # <<>> /\ Strip(df[i].Brand) = df[i].Brand
        /\ Len(df) = CountValid(folder)

HasYear(f) == ResolveYear(f) # None

C6_NoMetricsOverEmptyView ==
    Filtered => df_f # <<>>

IsNarrow(f) == Len(f.cols) < 2

RECURSIVE WithoutNarrow(_)
\* The files of fs with two columns or more.
WithoutNarrow(fs) ==
    IF fs = <<>> THEN <<>>
    ELSE IF IsNarrow(fs[1]) THEN WithoutNarrow(Tail(fs))
         ELSE <<fs[1]>> \o WithoutNarrow(Tail(fs))

\* C7: a file with fewer than two columns has no quantity column and is
\* skipped: the load does not fail, the file is not listed as used, and the
\* dataset is that of the other files.
C7_NarrowFileSkipped ==
    (pc # "load" /\ \E i \in 1..Len(folder) : IsNarrow(folder[i])) =>
        /\ \A i \in 1..Len(folder) :
              IsNarrow(folder[i]) => pick_retail_col(load_one_csv(folder[i]).cols) = None
        /\ halt # "KeyError"
        /\ \A i \in 1..Len(folder) :
              IsNarrow(folder[i]) => folder[i].name \notin Range(used_files)
        /\ df = load_dataset_from_folder(WithoutNarrow(folder)).data

\* C8: where a year's total is 0, every share is undefined (NaN): in the view,
\* and in the treemap's slice of the KPI year.
C8_ZeroTotalShareUndefined ==
    pc = "done" =>
        /\ \A i \in 1..Len(df_f) : df_f[i].TotalYear = 0 => IsNaN(df_f[i].Share)
        /\ MarketTotal(df, kpi_year) = Num(0) =>
              \A i \in 1..Len(tre) : IsNaN(tre[i].Share)

\* The brands of the dataset in year y, and the positions of its rows.
BrandsOfYear(y) == {df[i].Brand : i \in {j \in 1..Len(df) : df[j].Year = y}}
RowsOfYear(y) == {i \in 1..Len(df) : df[i].Year = y}

ViewBrands == {df_f[i].Brand : i \in 1..Len(df_f)}

\* C9: in top-N mode the chosen brands are the union over the
\* selected years of the N highest-quantity brands of each year (all of them
\* when the year has fewer), and the view holds every row of the selected
\* years of a chosen brand.
C9_TopNBrandsOfEachYear ==
    (Filtered /\ brand_mode = ModeTop) =>
        \E T \in [selected_years -> SUBSET brands_all] :
            /\ \A y \in selected_years :
                  /\ T[y] \subseteq BrandsOfYear(y)
                  /\ Cardinality(T[y]) = Min(topn, Cardinality(BrandsOfYear(y)))
                  /\ \A b \in T[y], c \in BrandsOfYear(y) \ T[y] :
                        Pivot(df, b, y).num >= Pivot(df, c, y).num
            /\ LET U == UNION {T[y] : y \in selected_years}
                   InUnion(r) == r.Year \in selected_years /\ r.Brand \in U
               IN  PlainView = SelectSeq(df, InUnion)

\* The YoY change and growth of brand b in year y from the sums of the whole
\* dataset: defined from the brand's rows of y and of y - 1.
RefCell(b, y) ==
    LET IsCell(r) == r.Brand = b /\ r.Year = y
    IN  SelectSeq(df, IsCell)

RefChange(b, y) ==
    IF RefCell(b, y) = <<>> \/ RefCell(b, y - 1) = <<>> THEN NaN
    ELSE Num(SumRetail(RefCell(b, y)) - SumRetail(RefCell(b, y - 1)))

RefGrowth(b, y) ==
    IF RefCell(b, y) = <<>> \/ RefCell(b, y - 1) = <<>> THEN NaN
    ELSE FDivPct(RefChange(b, y), Num(SumRetail(RefCell(b, y - 1))))

\* The filter states the sidebar offers over the loaded dataset.
FilterStates ==
    {st \in [sel : SUBSET Range(years) \ {{}}, mode : {ModeTop, ModeManual},
             n : 1..Min(MaxTopN, Cardinality(brands_all)),
             manual : SUBSET brands_all] :
        /\ st.mode = ModeTop => st.manual = {}
        /\ st.mode = ModeManual => st.n = Min(MaxTopN, Cardinality(brands_all))}

\* The annotated view the run computes under filter state st.
ViewUnder(st) ==
    Annotate(df, years, ApplyFilters(df, st.sel, st.mode, st.n, st.manual))

\* C10: the YoY change and growth of a view row are those of the pivot of the
\* whole dataset, and a (brand, year) row carries the same YoY values in the
\* view of every other filter state over the same dataset.
C10_YoYIndependentOfFilters ==
    pc = "done" =>
        /\ \A i \in 1..Len(df_f) :
              /\ df_f[i].YoY_Change = RefChange(df_f[i].Brand, df_f[i].Year)
              /\ df_f[i].YoY_Growth = RefGrowth(df_f[i].Brand, df_f[i].Year)
        /\ \A st \in FilterStates :
              LET other == ViewUnder(st)
              IN  \A i \in 1..Len(df_f), j \in 1..Len(other) :
                      (other[j].Brand = df_f[i].Brand /\ other[j].Year = df_f[i].Year) =>
                          /\ other[j].YoY_Change = df_f[i].YoY_Change
                          /\ other[j].YoY_Growth = df_f[i].YoY_Growth

\* A view row carries a defined YoY change although its prior year is not
\* selected and another brand of its year is filtered out of the view.
C10_Witness ==
    /\ pc = "done"
    /\ \E i \in 1..Len(df_f) :
          /\ IsNum(df_f[i].YoY_Change)
          /\ (df_f[i].Year - 1) \notin selected_years
          /\ \E j \in RowsOfYear(df_f[i].Year) : df[j].Brand \notin ViewBrands

\* C11: the YoY change and growth of a view row of brand b and year y are
\* defined only when b has rows in both y and y - 1 of the dataset: when year
\* y - 1 is not in the dataset or b has no row in it, both are undefined
\* (NaN, never 0); when the sums a of y - 1 (a # 0) and c of y both exist,
\* the change is c - a and the growth (c - a) / a * 100.
C11_YoYDefinedOnlyWithBothCells ==
    Derived =>
        \A i \in 1..Len(df_f) :
            LET prev == RefCell(df_f[i].Brand, df_f[i].Year - 1)
                a == SumRetail(prev)
                c == SumRetail(RefCell(df_f[i].Brand, df_f[i].Year))
            IN  /\ ((df_f[i].Year - 1) \notin Range(years) \/ prev = <<>>) =>
                      /\ IsNaN(df_f[i].YoY_Change)
                      /\ IsNaN(df_f[i].YoY_Growth)
                /\ (prev # <<>> /\ a # 0) =>
                      /\ df_f[i].YoY_Change = Num(c - a)
                      /\ df_f[i].YoY_Growth = Rat((c - a) * 100, a)

\* The view of a finished run holds a row whose brand has a non-zero sum in
\* the year before and a changed one in its year, and a row of the same year
\* whose brand has no row in the year before.
C11_Witness ==
    /\ pc = "done"
    /\ \E i, j \in 1..Len(df_f) :
          /\ df_f[i].Year = df_f[j].Year
          /\ RefCell(df_f[i].Brand, df_f[i].Year - 1) # <<>>
          /\ SumRetail(RefCell(df_f[i].Brand, df_f[i].Year - 1)) # 0
          /\ IsNum(df_f[i].YoY_Change) /\ df_f[i].YoY_Change # Num(0)
          /\ IsNum(df_f[i].YoY_Growth)
          /\ RefCell(df_f[j].Brand, df_f[j].Year - 1) = <<>>
          /\ IsNaN(df_f[j].YoY_Change)

\* The quantities of the view's rows of year y, summed.
ViewTotal(y) ==
    LET InYear(r) == r.Year = y
    IN  SumRetail(SelectSeq(PlainView, InYear))

\* The shares of a sequence of annotated rows, summed as fractions.
RECURSIVE SumShare(_)
SumShare(rows) ==
    IF rows = <<>> THEN Num(0)
    ELSE LET x == rows[1].Share
             y == SumShare(Tail(rows))
         IN  IF IsNum(x) /\ IsNum(y)
             THEN Rat(x.num * y.den + y.num * x.den, x.den * y.den)
             ELSE NaN

\* C12: the Share of every row of the filtered view is its quantity over T
\* times 100, T being the sum of the quantities of the view's rows of the same
\* year (not of the whole dataset's), defined under the guard T > 0 of the
\* share; whenever T > 0 the shares of that year's rows in the view sum to 100.
C12_ShareRelativeToFilteredTotal ==
    Derived =>
        \A i \in 1..Len(df_f) :
            LET T == ViewTotal(df_f[i].Year)
                SameYear(r) == r.Year = df_f[i].Year
            IN  /\ df_f[i].TotalYear = T
                /\ df_f[i].Share = IF T > 0 THEN Rat(df_f[i].Retail * 100, T) ELSE NaN
                /\ T > 0 => SumShare(SelectSeq(df_f, SameYear)) = Num(100)

\* A finished run whose filter removed a row with a quantity from a year of
\* the view: the view's total of the year is positive and differs from the
\* dataset's, and the year's shares, each below 100, are taken of the former.
C12_Witness ==
    /\ pc = "done"
    /\ \E i \in 1..Len(df_f) :
          /\ ViewTotal(df_f[i].Year) > 0
          /\ ViewTotal(df_f[i].Year) # SumRetail(OfYears(df, {df_f[i].Year}))
          /\ IsNum(df_f[i].Share) /\ df_f[i].Share # Num(100)
          /\ df_f[i].Share = Rat(df_f[i].Retail * 100, ViewTotal(df_f[i].Year))

\* C13: for every header line with at least two distinct column names the
\* column resolver returns two different columns, one for the brand and one
\* for the quantity, also when one is found by substring and the other by
\* position: no file of a loaded folder has the same column picked for both.
C13_ResolverPicksDistinctColumns ==
    pc # "load" =>
        \A i \in 1..Len(folder) :
            LET cols == load_one_csv(folder[i]).cols
            IN  Cardinality(Range(cols)) >= 2 =>
                    /\ pick_brand_col(cols) # None
                    /\ pick_retail_col(cols) # None
                    /\ pick_brand_col(cols) # pick_retail_col(cols)

====
